---- MODULE Spec2Model ----
(***************************************************************************)
(* Model of the YouTube-Downloader front-end: src/src/downloader.py (the   *)
(* URL validator, the option builder, the download orchestrator, the       *)
(* console progress hook and the CLI main) and src/src/app.py (the         *)
(* Streamlit progress hook, the metadata cache and the GUI main).          *)
(*                                                                         *)
(* Strings the code inspects are sequences of lexemes: a URL is a sequence *)
(* of URL lexemes ("https://", "youtube.com/", "w" for one character of    *)
(* [\w-], ...), a file name is a sequence of characters.  The extraction   *)
(* engine (yt_dlp) and the user are the environment: each call to them is  *)
(* a nondeterministic choice of the outcomes they can produce.             *)
(***************************************************************************)
EXTENDS Integers, Sequences, FiniteSets, TLC

----------------------------------------------------------------------------
(* Bounds of the model *)

\* longest URL handed to URLValidator.validate_url on its own
MaxUrlLen == 3
\* longest custom file name
MaxNameLen == 3
\* largest byte count in a progress event
MaxBytes == 4
\* most lines the user has typed ahead at one prompt
MaxAnswers == 2

----------------------------------------------------------------------------
(* Values *)

\* Python's None, where an enum member or a callable is expected
None == "None"

\* Python's None, where a str (a sequence of lexemes) is expected
NoneStr == <<"None">>

\* Python's None, where a dict is expected
NoneDict == [py |-> "None"]

\* Python truthiness of an optional enum member or callable
Truthy(v) == v # None

\* Python truthiness of an optional str: None and "" are false
TruthyStr(v) == v # NoneStr /\ v # <<>>

\* Python truthiness of an optional dict: None and {} are false
TruthyDict(v) == v # NoneDict /\ v # <<>>

\* class Quality
Quality == {"BEST", "HD_4K", "HD_1080", "HD_720", "AUDIO_ONLY"}
VideoQuality == Quality \ {"AUDIO_ONLY"}

\* class VideoFormat (the member values)
VideoFormat == {"mp4", "webm", "mkv", "avi"}

\* all sequences over S of length at most n
RECURSIVE SeqsUpTo(_, _)
SeqsUpTo(S, n) ==
    IF n = 0 THEN {<<>>}
    ELSE LET shorter == SeqsUpTo(S, n - 1)
         IN  shorter \cup {Append(s, c) : s \in shorter, c \in S}

----------------------------------------------------------------------------
(* URLValidator: str.strip and the YOUTUBE_PATTERNS *)

\* the characters str.strip() removes
Whitespace == {" ", "\t", "\n"}

RECURSIVE LStrip(_)
LStrip(s) ==
    IF s # <<>> /\ Head(s) \in Whitespace THEN LStrip(Tail(s)) ELSE s

RECURSIVE RStrip(_)
RStrip(s) ==
    IF s # <<>> /\ s[Len(s)] \in Whitespace
    THEN RStrip(SubSeq(s, 1, Len(s) - 1))
    ELSE s

\* url.lstrip() in the place of url.strip()
StripLeadingOnly(s) == LStrip(s)

\* url.strip()
Strip(s) == RStrip(LStrip(s))

\* one character of [\w-]
WordClass == {"w", "-"}

\* lexemes made only of characters of [\w/?=&-]
PathClass == WordClass \cup {"/", "?", "=", "&", "watch?v=", "playlist?list=",
                             "c/", "channel/", "embed/", "shorts/"}

\* (?:https?://)?
Schemes == {"http://", "https://"}

\* YOUTUBE_PATTERNS: optional scheme, optional subdomain, host, literal path
\* prefix (<<>> when the pattern has none), then one or more of a class
YOUTUBE_PATTERNS == <<
    [sub |-> "www.",   host |-> "youtube.com/", lit |-> <<"watch?v=">>,       cls |-> WordClass],
    [sub |-> "www.",   host |-> "youtube.com/", lit |-> <<"playlist?list=">>, cls |-> WordClass],
    [sub |-> "",       host |-> "youtu.be/",    lit |-> <<>>,                 cls |-> WordClass],
    [sub |-> "www.",   host |-> "youtube.com/", lit |-> <<"c/">>,             cls |-> WordClass],
    [sub |-> "www.",   host |-> "youtube.com/", lit |-> <<"channel/">>,       cls |-> WordClass],
    [sub |-> "www.",   host |-> "youtube.com/", lit |-> <<"@">>,              cls |-> WordClass],
    [sub |-> "music.", host |-> "youtube.com/", lit |-> <<>>,                 cls |-> PathClass],
    [sub |-> "m.",     host |-> "youtube.com/", lit |-> <<>>,                 cls |-> PathClass],
    [sub |-> "www.",   host |-> "youtube.com/", lit |-> <<"embed/">>,         cls |-> WordClass],
    [sub |-> "www.",   host |-> "youtube.com/", lit |-> <<"shorts/">>,        cls |-> WordClass] >>

\* s starts with the sequence p
StartsWith(s, p) == Len(s) >= Len(p) /\ SubSeq(s, 1, Len(p)) = p

\* s without its first n elements
Drop(s, n) == SubSeq(s, n + 1, Len(s))

\* re.match(pattern, url): the pattern matches a prefix of url
ReMatch(p, url) ==
    \E useScheme \in BOOLEAN, useSub \in BOOLEAN :
        LET afterScheme == IF useScheme THEN Drop(url, 1) ELSE url
            afterSub    == IF useSub THEN Drop(afterScheme, 1) ELSE afterScheme
            afterHost   == Drop(afterSub, 1)
            afterLit    == Drop(afterHost, Len(p.lit))
        IN  /\ useScheme => (url # <<>> /\ Head(url) \in Schemes)
            /\ useSub => (p.sub # "" /\ afterScheme # <<>> /\ Head(afterScheme) = p.sub)
            /\ afterSub # <<>> /\ Head(afterSub) = p.host
            /\ StartsWith(afterHost, p.lit)
            /\ afterLit # <<>> /\ Head(afterLit) \in p.cls

\* URLValidator._matches_youtube_pattern
MatchesYoutubePattern(url) ==
    \E i \in DOMAIN YOUTUBE_PATTERNS : ReMatch(YOUTUBE_PATTERNS[i], url)

----------------------------------------------------------------------------
(* YouTubeDownloader: output template *)

\* the characters custom file names are made of
NameChars == {"a", ".", "/"}

\* largest element of a non-empty finite set of integers
MaxOf(S) == CHOOSE m \in S : \A k \in S : k <= m

\* pathlib: the last component of a path, "" and "." components dropped
\* (PurePath.name; <<>> when the path has no component)
PathName(s) ==
    LET seps   == {i \in 1..Len(s) : s[i] = "/"} \cup {0, Len(s) + 1}
        comps  == {<<i, j>> \in seps \X seps :
                      /\ i < j
                      /\ \A k \in seps : ~(i < k /\ k < j)
                      /\ SubSeq(s, i + 1, j - 1) \notin {<<>>, <<".">>}}
    IN  IF comps = {} THEN <<>>
        ELSE LET last == CHOOSE c \in comps : \A d \in comps : d[1] <= c[1]
             IN  SubSeq(s, last[1] + 1, last[2] - 1)

\* pathlib: PurePath.stem, the name without its last suffix
PathStem(s) ==
    LET name == PathName(s)
        dots == {i \in 1..Len(name) : name[i] = "."}
        i    == IF dots = {} THEN 0 ELSE MaxOf(dots)
    IN  IF 1 < i /\ i < Len(name) THEN SubSeq(name, 1, i - 1) ELSE name

\* _get_output_template with the custom file name tested before, and
\* regardless of, the playlist flag
GetOutputTemplateCustomFirst(self, is_playlist, video_info) ==
    LET base_dir == self.output_dir
    IN  IF TruthyStr(self.custom_filename)
        THEN <<base_dir, "/">> \o PathStem(self.custom_filename) \o <<".%(ext)s">>
        ELSE IF is_playlist
        THEN <<base_dir, "/", "%(playlist)s", "/", "%(playlist_index)s", " - ",
               "%(title)s", ".%(ext)s">>
        ELSE <<base_dir, "/", "%(title)s", ".%(ext)s">>

\* YouTubeDownloader._get_output_template
GetOutputTemplate(self, is_playlist, video_info) ==
    LET base_dir == self.output_dir
    IN  IF TruthyStr(self.custom_filename) /\ ~is_playlist
        THEN <<base_dir, "/">> \o PathStem(self.custom_filename) \o <<".%(ext)s">>
        ELSE IF is_playlist
        THEN <<base_dir, "/", "%(playlist)s", "/", "%(playlist_index)s", " - ",
               "%(title)s", ".%(ext)s">>
        ELSE <<base_dir, "/", "%(title)s", ".%(ext)s">>

----------------------------------------------------------------------------
(* YouTubeDownloader: format policy *)

\* one stream selector of a format expression: best[height<=h][ext=e];
\* height 0 and ext "" stand for "no such filter"
Sel(stream, height, ext) == [stream |-> stream, height |-> height, ext |-> ext]

\* _build_format_string with plain "best" as the last alternative of every
\* tier when not converting
BuildFormatStringOpenFallback(quality, force_convert) ==
    IF force_convert
    THEN CASE quality = "BEST" ->
                << <<Sel("best", 0, "")>> >>
           [] quality = "HD_4K" ->
                << <<Sel("bestvideo", 2160, ""), Sel("bestaudio", 0, "")>>,
                   <<Sel("best", 2160, "")>> >>
           [] quality = "HD_1080" ->
                << <<Sel("bestvideo", 1080, ""), Sel("bestaudio", 0, "")>>,
                   <<Sel("best", 1080, "")>> >>
           [] quality = "HD_720" ->
                << <<Sel("bestvideo", 720, ""), Sel("bestaudio", 0, "")>>,
                   <<Sel("best", 720, "")>> >>
           [] OTHER ->
                << <<Sel("best", 0, "")>> >>
    ELSE CASE quality = "BEST" ->
                << <<Sel("best", 0, "mp4")>>,
                   <<Sel("bestvideo", 0, "mp4"), Sel("bestaudio", 0, "m4a")>>,
                   <<Sel("best", 0, "")>> >>
           [] quality = "HD_4K" ->
                << <<Sel("best", 2160, "mp4")>>,
                   <<Sel("bestvideo", 2160, "mp4"), Sel("bestaudio", 0, "m4a")>>,
                   <<Sel("best", 0, "")>> >>
           [] quality = "HD_1080" ->
                << <<Sel("best", 1080, "mp4")>>,
                   <<Sel("bestvideo", 1080, "mp4"), Sel("bestaudio", 0, "m4a")>>,
                   <<Sel("best", 0, "")>> >>
           [] quality = "HD_720" ->
                << <<Sel("best", 720, "mp4")>>,
                   <<Sel("bestvideo", 720, "mp4"), Sel("bestaudio", 0, "m4a")>>,
                   <<Sel("best", 0, "")>> >>
           [] OTHER ->
                << <<Sel("best", 0, "mp4")>>, <<Sel("best", 0, "")>> >>

\* YouTubeDownloader._build_format_string: the "/"-separated alternatives,
\* each a sequence of "+"-joined stream selectors
BuildFormatString(quality, force_convert) ==
    IF force_convert
    THEN CASE quality = "BEST" ->
                << <<Sel("best", 0, "")>> >>
           [] quality = "HD_4K" ->
                << <<Sel("bestvideo", 2160, ""), Sel("bestaudio", 0, "")>>,
                   <<Sel("best", 2160, "")>> >>
           [] quality = "HD_1080" ->
                << <<Sel("bestvideo", 1080, ""), Sel("bestaudio", 0, "")>>,
                   <<Sel("best", 1080, "")>> >>
           [] quality = "HD_720" ->
                << <<Sel("bestvideo", 720, ""), Sel("bestaudio", 0, "")>>,
                   <<Sel("best", 720, "")>> >>
           [] OTHER ->
                << <<Sel("best", 0, "")>> >>
    ELSE CASE quality = "BEST" ->
                << <<Sel("best", 0, "mp4")>>,
                   <<Sel("bestvideo", 0, "mp4"), Sel("bestaudio", 0, "m4a")>>,
                   <<Sel("best", 0, "")>> >>
           [] quality = "HD_4K" ->
                << <<Sel("best", 2160, "mp4")>>,
                   <<Sel("bestvideo", 2160, "mp4"), Sel("bestaudio", 0, "m4a")>>,
                   <<Sel("best", 2160, "")>> >>
           [] quality = "HD_1080" ->
                << <<Sel("best", 1080, "mp4")>>,
                   <<Sel("bestvideo", 1080, "mp4"), Sel("bestaudio", 0, "m4a")>>,
                   <<Sel("best", 1080, "")>> >>
           [] quality = "HD_720" ->
                << <<Sel("best", 720, "mp4")>>,
                   <<Sel("bestvideo", 720, "mp4"), Sel("bestaudio", 0, "m4a")>>,
                   <<Sel("best", 720, "")>> >>
           [] OTHER ->
                << <<Sel("best", 0, "mp4")>>, <<Sel("best", 0, "")>> >>

\* _get_ydl_opts without the early return of the audio-only branch: the
\* metadata step is appended to the audio post-processors
GetYdlOptsAudioFallsThrough(self, quality, is_playlist, video_info, force_convert) ==
    LET opts == [outtmpl             |-> GetOutputTemplate(self, is_playlist, video_info),
                 progress_hooks      |-> <<self.progress_hook>>,
                 no_warnings         |-> TRUE,
                 ignoreerrors        |-> FALSE,
                 extract_flat        |-> FALSE,
                 merge_output_format |-> "mp4"]
        extract == << [key              |-> "FFmpegExtractAudio",
                       preferredcodec   |-> "mp3",
                       preferredquality |-> "192"] >>
        convert == IF force_convert /\ Truthy(self.preferred_format)
                   THEN << [key |-> "FFmpegVideoConvertor",
                            preferedformat |-> self.preferred_format] >>
                   ELSE <<>>
    IN  IF quality = "AUDIO_ONLY"
        THEN opts @@ [format |-> << <<Sel("bestaudio", 0, "")>>, <<Sel("best", 0, "")>> >>,
                      postprocessors |-> Append(extract, [key |-> "FFmpegMetadata"])]
        ELSE opts @@ [format |-> BuildFormatString(quality, force_convert),
                      postprocessors |-> Append(convert, [key |-> "FFmpegMetadata"])]

\* _get_ydl_opts testing only self.preferred_format, not force_convert,
\* before it adds the convertor
GetYdlOptsAlwaysConvert(self, quality, is_playlist, video_info, force_convert) ==
    LET opts == [outtmpl             |-> GetOutputTemplate(self, is_playlist, video_info),
                 progress_hooks      |-> <<self.progress_hook>>,
                 no_warnings         |-> TRUE,
                 ignoreerrors        |-> FALSE,
                 extract_flat        |-> FALSE,
                 merge_output_format |-> "mp4"]
        audio == [format |-> << <<Sel("bestaudio", 0, "")>>, <<Sel("best", 0, "")>> >>,
                  postprocessors |-> << [key              |-> "FFmpegExtractAudio",
                                         preferredcodec   |-> "mp3",
                                         preferredquality |-> "192"] >>]
        convert == IF Truthy(self.preferred_format)
                   THEN << [key |-> "FFmpegVideoConvertor",
                            preferedformat |-> self.preferred_format] >>
                   ELSE <<>>
    IN  IF quality = "AUDIO_ONLY"
        THEN opts @@ audio
        ELSE opts @@ [format |-> BuildFormatString(quality, force_convert),
                      postprocessors |-> Append(convert, [key |-> "FFmpegMetadata"])]

\* YouTubeDownloader._get_ydl_opts
GetYdlOpts(self, quality, is_playlist, video_info, force_convert) ==
    LET opts == [outtmpl             |-> GetOutputTemplate(self, is_playlist, video_info),
                 progress_hooks      |-> <<self.progress_hook>>,
                 no_warnings         |-> TRUE,
                 ignoreerrors        |-> FALSE,
                 extract_flat        |-> FALSE,
                 merge_output_format |-> "mp4"]
        audio == [format |-> << <<Sel("bestaudio", 0, "")>>, <<Sel("best", 0, "")>> >>,
                  postprocessors |-> << [key              |-> "FFmpegExtractAudio",
                                         preferredcodec   |-> "mp3",
                                         preferredquality |-> "192"] >>]
        convert == IF force_convert /\ Truthy(self.preferred_format)
                   THEN << [key |-> "FFmpegVideoConvertor",
                            preferedformat |-> self.preferred_format] >>
                   ELSE <<>>
        postprocessors == Append(convert, [key |-> "FFmpegMetadata"])
    IN  IF quality = "AUDIO_ONLY"
        THEN opts @@ audio
        ELSE opts @@ [format |-> BuildFormatString(quality, force_convert),
                      postprocessors |-> postprocessors]

----------------------------------------------------------------------------
(* The environment: the extraction engine and the user at the terminal *)

\* an exception raised by the engine (yt_dlp.utils.DownloadError)
DownloadError == [exc |-> "DownloadError"]

\* metadata dicts the engine can return: a video with an integer or a
\* fractional duration, a playlist, and the empty dict
Infos == { [title |-> "T", uploader |-> "U", duration |-> "95"],
           [title |-> "T", uploader |-> "U", duration |-> "95.5"],
           [title |-> "P", type |-> "playlist"],
           <<>> }

\* dict.get(key, default)
Get(d, key, default) == IF key \in DOMAIN d THEN d[key] ELSE default

\* what ydl.extract_info(url, download=False) can do: return a dict, return
\* None, or raise
ExtractOutcomes == Infos \cup {NoneDict, DownloadError}

\* what ydl.download([url]) can do
DownloadOutcomes == {[ok |-> TRUE], DownloadError}

\* lines the user can type at a prompt
AnswerLines == {"y", " N", ""}

\* line.strip().lower()
StripLower(line) ==
    CASE line = " N" -> "n"
      [] OTHER       -> line

\* while True: choice = input(...).strip().lower(); leave the loop on a
\* member of yes or of no, ask again otherwise.  stdin holds the lines still
\* to be read; input() on an exhausted stdin raises EOFError.
RECURSIVE AskLoop(_, _, _)
AskLoop(stdin, yes, no) ==
    IF stdin = <<>>
    THEN [choice |-> "EOFError", inputs |-> 1]
    ELSE LET choice == StripLower(Head(stdin))
         IN  IF choice \in yes THEN [choice |-> "yes", inputs |-> 1]
             ELSE IF choice \in no THEN [choice |-> "no", inputs |-> 1]
             ELSE LET rest == AskLoop(Tail(stdin), yes, no)
                  IN  [choice |-> rest.choice, inputs |-> rest.inputs + 1]

----------------------------------------------------------------------------
(* URLValidator *)

\* URLValidator._test_url_with_ydlp
TestUrlWithYdlp(url, outcome) ==
    [ret   |-> IF outcome = DownloadError THEN FALSE ELSE outcome # NoneDict,
     calls |-> << [op |-> "extract_info", url |-> url, download |-> FALSE,
                   opts |-> [quiet |-> TRUE, no_warnings |-> TRUE,
                             extract_flat |-> TRUE]] >>]

\* URLValidator.validate_url: ret is (is_valid, processed_url), calls the
\* engine calls made, inputs the number of input() calls, raised the
\* exception that left the function ("" when it returned)
ValidateUrl(url0, interactive, outcome, stdin) ==
    LET url   == Strip(url0)
        probe == TestUrlWithYdlp(url, outcome)
        ask   == AskLoop(stdin, {"y", "yes"}, {"n", "no"})
    IN  IF MatchesYoutubePattern(url)
        THEN [ret |-> <<TRUE, url>>, calls |-> <<>>, inputs |-> 0, raised |-> ""]
        ELSE IF probe.ret
        THEN [ret |-> <<TRUE, url>>, calls |-> probe.calls, inputs |-> 0, raised |-> ""]
        ELSE IF interactive
        THEN [ret    |-> <<ask.choice = "yes", url>>,
              calls  |-> probe.calls,
              inputs |-> ask.inputs,
              raised |-> IF ask.choice = "EOFError" THEN "EOFError" ELSE ""]
        ELSE [ret |-> <<FALSE, url>>, calls |-> probe.calls, inputs |-> 0, raised |-> ""]

\* get_video_info without its try/except: the engine's exception leaves it
GetVideoInfoUncaught(url, extract_flat, outcome) ==
    [ret     |-> outcome,
     calls   |-> << [op |-> "extract_info", url |-> url, download |-> FALSE,
                     opts |-> [quiet |-> TRUE, no_warnings |-> TRUE,
                               extract_flat |-> extract_flat]] >>,
     printed |-> FALSE,
     raised  |-> IF outcome = DownloadError THEN "DownloadError" ELSE ""]

\* URLValidator.get_video_info
GetVideoInfo(url, extract_flat, outcome) ==
    [ret     |-> IF outcome = DownloadError THEN NoneDict ELSE outcome,
     calls   |-> << [op |-> "extract_info", url |-> url, download |-> FALSE,
                     opts |-> [quiet |-> TRUE, no_warnings |-> TRUE,
                               extract_flat |-> extract_flat]] >>,
     printed |-> outcome = DownloadError /\ ~extract_flat,
     raised  |-> ""]

----------------------------------------------------------------------------
(* YouTubeDownloader.download *)

\* YouTubeDownloader.__init__
NewDownloader(output_dir, custom_filename, preferred_format, progress_callback) ==
    [output_dir       |-> output_dir,
     custom_filename  |-> custom_filename,
     preferred_format |-> IF Truthy(preferred_format) THEN preferred_format ELSE "mp4",
     progress_hook    |-> IF Truthy(progress_callback) THEN progress_callback
                          ELSE "DefaultProgressHook"]

\* the announcement of download(): f"{mins:02d}" raises ValueError when the
\* duration is a non-zero float
AnnounceRaises(is_playlist, video_info, silent) ==
    /\ ~silent
    /\ TruthyDict(video_info) /\ ~is_playlist
    /\ Get(video_info, "duration", "0") = "95.5"

\* download calling the engine a second time when the first call fails
DownloadRetries(self, url, quality, is_playlist, video_info, force_convert, silent, outcome) ==
    LET opts == GetYdlOpts(self, quality, is_playlist, video_info, force_convert)
        call == [op |-> "download", url |-> url, download |-> TRUE, opts |-> opts]
    IN  IF AnnounceRaises(is_playlist, video_info, silent)
        THEN [ret |-> FALSE, calls |-> <<>>, printed |-> ~silent, raised |-> ""]
        ELSE IF outcome = DownloadError
        THEN [ret |-> FALSE, calls |-> <<call, call>>, printed |-> ~silent, raised |-> ""]
        ELSE [ret |-> TRUE, calls |-> <<call>>, printed |-> FALSE, raised |-> ""]

\* download() returning True from its except branch as well
DownloadIgnoresError(self, url, quality, is_playlist, video_info, force_convert, silent, outcome) ==
    LET opts == GetYdlOpts(self, quality, is_playlist, video_info, force_convert)
        call == [op |-> "download", url |-> url, download |-> TRUE, opts |-> opts]
    IN  IF AnnounceRaises(is_playlist, video_info, silent)
        THEN [ret |-> TRUE, calls |-> <<>>, printed |-> ~silent, raised |-> ""]
        ELSE [ret |-> TRUE, calls |-> <<call>>, printed |-> FALSE, raised |-> ""]

\* YouTubeDownloader.download: ret is the boolean returned, calls the engine
\* calls made, raised the exception that left the function
Download(self, url, quality, is_playlist, video_info, force_convert, silent, outcome) ==
    LET opts == GetYdlOpts(self, quality, is_playlist, video_info, force_convert)
        call == [op |-> "download", url |-> url, download |-> TRUE, opts |-> opts]
    IN  IF AnnounceRaises(is_playlist, video_info, silent)
        THEN [ret |-> FALSE, calls |-> <<>>, printed |-> ~silent, raised |-> ""]
        ELSE IF outcome = DownloadError
        THEN [ret |-> FALSE, calls |-> <<call>>, printed |-> ~silent, raised |-> ""]
        ELSE [ret |-> TRUE, calls |-> <<call>>, printed |-> FALSE, raised |-> ""]

----------------------------------------------------------------------------
(* Progress hooks *)

\* a byte-count field that is present and holds Python's None
NoneBytes == -1

\* the values of total_bytes and total_bytes_estimate
Totals == {NoneBytes} \cup (0..MaxBytes)

\* the events yt_dlp hands to a progress hook
Events ==
    [status : {"downloading"}, downloaded_bytes : 0..MaxBytes]
    \cup [status : {"downloading"}, downloaded_bytes : 0..MaxBytes,
          total_bytes : Totals]
    \cup [status : {"downloading"}, downloaded_bytes : 0..MaxBytes,
          total_bytes_estimate : Totals]
    \cup [status : {"downloading"}, downloaded_bytes : 0..MaxBytes,
          total_bytes : Totals, total_bytes_estimate : Totals]
    \cup {[status |-> "finished", filename |-> "f.mp4"], [status |-> "finished"]}
    \cup {[status |-> "error", error |-> "e"], [status |-> "error"]}

\* the total taken from total_bytes_estimate first
SizeOfEstimateFirst(d) ==
    IF "total_bytes_estimate" \in DOMAIN d THEN d.total_bytes_estimate ELSE d.total_bytes

\* the total the hooks divide by: total_bytes when the key is present, else
\* total_bytes_estimate
SizeOf(d) ==
    IF "total_bytes" \in DOMAIN d THEN d.total_bytes ELSE d.total_bytes_estimate

\* 'total_bytes' in d or 'total_bytes_estimate' in d
HasSize(d) == "total_bytes" \in DOMAIN d \/ "total_bytes_estimate" \in DOMAIN d

\* the exception of d['downloaded_bytes'] / total * 100 ("" when none)
PercentRaises(d) ==
    IF SizeOf(d) = NoneBytes THEN "TypeError"
    ELSE IF SizeOf(d) = 0 THEN "ZeroDivisionError"
    ELSE ""

\* int((d['downloaded_bytes'] / total) * 100)
IntPercent(d) == (d.downloaded_bytes * 100) \div SizeOf(d)

\* DefaultProgressHook.__init__
NewDefaultProgressHook == [last_printed_percent |-> -1, current_stage |-> "Downloading"]

\* DefaultProgressHook.__call__ without the line printed for 'finished'
DefaultProgressHookCallMuteFinished(self, d) ==
    IF d.status = "downloading"
    THEN IF ~HasSize(d)
         THEN [self |-> self, out |-> "", raised |-> ""]
         ELSE IF PercentRaises(d) # ""
         THEN [self |-> self, out |-> "", raised |-> PercentRaises(d)]
         ELSE IF IntPercent(d) # self.last_printed_percent /\ IntPercent(d) % 2 = 0
         THEN [self   |-> [self EXCEPT !.last_printed_percent = IntPercent(d)],
               out    |-> "bar",
               raised |-> ""]
         ELSE [self |-> self, out |-> "", raised |-> ""]
    ELSE IF d.status = "error"
    THEN [self |-> self, out |-> "error", raised |-> ""]
    ELSE [self |-> self, out |-> "", raised |-> ""]

\* DefaultProgressHook.__call__: self is the hook after the call, out what was
\* printed ("" when nothing), raised the exception that left the call
DefaultProgressHookCall(self, d) ==
    IF d.status = "downloading"
    THEN IF ~HasSize(d)
         THEN [self |-> self, out |-> "", raised |-> ""]
         ELSE IF PercentRaises(d) # ""
         THEN [self |-> self, out |-> "", raised |-> PercentRaises(d)]
         ELSE IF IntPercent(d) # self.last_printed_percent /\ IntPercent(d) % 2 = 0
         THEN [self   |-> [self EXCEPT !.last_printed_percent = IntPercent(d)],
               out    |-> "bar",
               raised |-> ""]
         ELSE [self |-> self, out |-> "", raised |-> ""]
    ELSE IF d.status = "finished"
    THEN IF "filename" \in DOMAIN d
         THEN [self |-> self, out |-> "downloaded", raised |-> ""]
         ELSE [self |-> self, out |-> "", raised |-> "KeyError"]
    ELSE IF d.status = "error"
    THEN [self |-> self, out |-> "error", raised |-> ""]
    ELSE [self |-> self, out |-> "", raised |-> ""]

\* StreamlitProgressHook.__init__: the widgets start at st.progress(0) and
\* st.empty()
NewStreamlitProgressHook == [progress_bar |-> 0, status_text |-> "", last_percent |-> 0]

\* StreamlitProgressHook.__call__; progress_bar.progress rejects a value
\* above 100
StreamlitProgressHookCall(self, d) ==
    IF d.status = "downloading"
    THEN IF ~HasSize(d)
         THEN [self |-> self, out |-> "", raised |-> ""]
         ELSE IF PercentRaises(d) # ""
         THEN [self |-> self, out |-> "", raised |-> PercentRaises(d)]
         ELSE IF IntPercent(d) > 100
         THEN [self |-> self, out |-> "", raised |-> "StreamlitAPIException"]
         ELSE [self   |-> [self EXCEPT !.progress_bar = IntPercent(d),
                                       !.status_text = "downloading"],
               out    |-> "bar",
               raised |-> ""]
    ELSE IF d.status = "finished"
    THEN IF "filename" \in DOMAIN d
         THEN [self   |-> [self EXCEPT !.progress_bar = 100,
                                       !.status_text = "completed"],
               out    |-> "downloaded",
               raised |-> ""]
         ELSE [self |-> self, out |-> "", raised |-> "KeyError"]
    ELSE IF d.status = "error"
    THEN [self   |-> [self EXCEPT !.status_text = "error"],
          out    |-> "error",
          raised |-> ""]
    ELSE [self |-> self, out |-> "", raised |-> ""]

----------------------------------------------------------------------------
(* State *)

VARIABLES
    mode,         \* which program runs: "cli", "gui", or "lib" for a single call
    pc,           \* the control point of main()
    args,         \* CLI: the parsed command line
    loc,          \* main()'s local variables
    accepted,     \* the URLs validate_url has returned is_valid=True for
    validated,    \* the URLs validate_url has been called with
    fetched,      \* the URLs URLValidator.get_video_info was called with
    prompts,      \* CLI: the input() prompts issued so far
    downloads,    \* the calls of YouTubeDownloader.download of this run
    engine,       \* the acquisition calls made to the engine in this run
    exit_status,  \* CLI: the process exit status (-1 while running)
    session,      \* GUI: st.session_state
    page,         \* GUI: what the last script run rendered
    downloader,   \* the YouTubeDownloader object
    hook,         \* the progress hook object
    callFn,       \* lib: the function called
    callArgs,     \* lib: its arguments
    callEnv,      \* lib: what the engine and the user do during the call
    callRet       \* lib: its outcome

runVars == <<mode, pc, args, loc, accepted, validated, fetched, prompts, downloads,
             engine, exit_status, session, page>>
libVars == <<downloader, hook, callFn, callArgs, callEnv, callRet>>
vars == <<mode, pc, args, loc, accepted, validated, fetched, prompts, downloads,
          engine, exit_status, session, page, downloader, hook, callFn, callArgs,
          callEnv, callRet>>

\* no call made yet
Pending == [done |-> FALSE]

\* the outcome r of a finished call
Returned(r) == [done |-> TRUE] @@ r

\* main() is not running
NoRun ==
    /\ pc = "none"
    /\ args = NoneDict
    /\ loc = NoneDict
    /\ accepted = {}
    /\ validated = {}
    /\ fetched = {}
    /\ prompts = {}
    /\ downloads = <<>>
    /\ engine = <<>>
    /\ exit_status = -1
    /\ session = NoneDict
    /\ page = NoneDict

\* no single call is examined
NoCall ==
    /\ callFn = "none"
    /\ callArgs = NoneDict
    /\ callEnv = NoneDict
    /\ callRet = Pending

----------------------------------------------------------------------------
(* URLValidator called on its own *)

\* the lexemes URLs are made of
UrlLexemes == {" ", "https://", "youtube.com/", "youtu.be/", "w", "#"}

Urls == SeqsUpTo(UrlLexemes, MaxUrlLen)

\* the lines the user can have typed ahead
Stdins == SeqsUpTo(AnswerLines, MaxAnswers)

InitValidator ==
    /\ mode = "lib" /\ NoRun
    /\ downloader = NoneDict /\ hook = NoneDict
    /\ callRet = Pending
    /\ \/ /\ callFn = "validate_url"
          /\ callArgs \in [url : Urls, interactive : BOOLEAN]
          \* input() is reached only by an interactive call whose probe fails
          /\ \E outcome \in ExtractOutcomes :
             \E stdin \in (IF callArgs.interactive
                               /\ outcome \in {NoneDict, DownloadError}
                            THEN Stdins ELSE {<<>>}) :
                callEnv = [outcome |-> outcome, stdin |-> stdin]
       \/ /\ callFn = "get_video_info"
          /\ callArgs \in [url : Urls, extract_flat : BOOLEAN]
          /\ callEnv \in [outcome : ExtractOutcomes]

CallValidateUrl ==
    /\ callFn = "validate_url" /\ callRet = Pending
    /\ callRet' = Returned(ValidateUrl(callArgs.url, callArgs.interactive,
                                       callEnv.outcome, callEnv.stdin))
    /\ UNCHANGED <<runVars, downloader, hook, callFn, callArgs, callEnv>>

CallGetVideoInfo ==
    /\ callFn = "get_video_info" /\ callRet = Pending
    /\ callRet' = Returned(GetVideoInfo(callArgs.url, callArgs.extract_flat,
                                        callEnv.outcome))
    /\ UNCHANGED <<runVars, downloader, hook, callFn, callArgs, callEnv>>

NextValidator == CallValidateUrl \/ CallGetVideoInfo

SpecValidator == InitValidator /\ [][NextValidator]_vars

----------------------------------------------------------------------------
(* YouTubeDownloader called on its own *)

\* str(Path(output_dir)) of the directories used
OutputDirs == {".", "out"}

\* custom file names
Names == SeqsUpTo(NameChars, MaxNameLen)

\* the URL downloaded when download() is called on its own
SampleUrl == <<"youtu.be/", "w">>

\* the objects YouTubeDownloader(...) constructs
Downloaders ==
    {NewDownloader(d, n, f, cb) : d \in OutputDirs, n \in Names \cup {NoneStr},
                                  f \in VideoFormat \cup {None},
                                  cb \in {None, "StreamlitProgressHook"}}

VideoInfos == Infos \cup {NoneDict}

InitDownloader ==
    /\ mode = "lib" /\ NoRun
    /\ downloader \in Downloaders /\ hook = NoneDict
    /\ callRet = Pending
    /\ \/ /\ callFn = "_get_output_template"
          /\ callArgs \in [is_playlist : BOOLEAN, video_info : VideoInfos]
          /\ callEnv = NoneDict
       \/ /\ callFn = "_get_ydl_opts"
          /\ callArgs \in [quality : Quality, is_playlist : BOOLEAN,
                           video_info : VideoInfos, force_convert : BOOLEAN]
          /\ callEnv = NoneDict
       \/ /\ callFn = "_build_format_string"
          /\ callArgs \in [quality : Quality, force_convert : BOOLEAN]
          /\ callEnv = NoneDict
       \/ /\ callFn = "download"
          /\ callArgs \in [url : {SampleUrl}, quality : Quality, is_playlist : BOOLEAN,
                           video_info : VideoInfos, force_convert : BOOLEAN,
                           silent : BOOLEAN]
          /\ callEnv \in [outcome : DownloadOutcomes]

CallGetOutputTemplate ==
    /\ callFn = "_get_output_template" /\ callRet = Pending
    /\ callRet' = Returned([ret |-> GetOutputTemplate(downloader, callArgs.is_playlist,
                                                      callArgs.video_info)])
    /\ UNCHANGED <<runVars, downloader, hook, callFn, callArgs, callEnv>>

CallGetYdlOpts ==
    /\ callFn = "_get_ydl_opts" /\ callRet = Pending
    /\ callRet' = Returned([ret |-> GetYdlOpts(downloader, callArgs.quality,
                                               callArgs.is_playlist, callArgs.video_info,
                                               callArgs.force_convert)])
    /\ UNCHANGED <<runVars, downloader, hook, callFn, callArgs, callEnv>>

CallBuildFormatString ==
    /\ callFn = "_build_format_string" /\ callRet = Pending
    /\ callRet' = Returned([ret |-> BuildFormatString(callArgs.quality,
                                                      callArgs.force_convert)])
    /\ UNCHANGED <<runVars, downloader, hook, callFn, callArgs, callEnv>>

CallDownload ==
    /\ callFn = "download" /\ callRet = Pending
    /\ callRet' = Returned(Download(downloader, callArgs.url, callArgs.quality,
                                    callArgs.is_playlist, callArgs.video_info,
                                    callArgs.force_convert, callArgs.silent,
                                    callEnv.outcome))
    /\ UNCHANGED <<runVars, downloader, hook, callFn, callArgs, callEnv>>

NextDownloader ==
    CallGetOutputTemplate \/ CallGetYdlOpts \/ CallBuildFormatString \/ CallDownload

SpecDownloader == InitDownloader /\ [][NextDownloader]_vars

----------------------------------------------------------------------------
(* The progress hooks fed with events *)

InitHook ==
    /\ mode = "lib" /\ NoRun
    /\ downloader = NoneDict
    /\ callArgs = NoneDict /\ callEnv = NoneDict /\ callRet = Pending
    /\ \/ callFn = "DefaultProgressHook" /\ hook = NewDefaultProgressHook
       \/ callFn = "StreamlitProgressHook" /\ hook = NewStreamlitProgressHook

\* the engine hands event d to the console hook
CallDefaultProgressHook ==
    /\ callFn = "DefaultProgressHook"
    /\ \E d \in Events :
          LET r == DefaultProgressHookCall(hook, d)
          IN  /\ hook' = r.self
              /\ callArgs' = [d |-> d, self |-> hook]
              /\ callRet' = Returned([out |-> r.out, raised |-> r.raised])
    /\ UNCHANGED <<runVars, downloader, callFn, callEnv>>

\* the engine hands event d to the GUI hook
CallStreamlitProgressHook ==
    /\ callFn = "StreamlitProgressHook"
    /\ \E d \in Events :
          LET r == StreamlitProgressHookCall(hook, d)
          IN  /\ hook' = r.self
              /\ callArgs' = [d |-> d, self |-> hook]
              /\ callRet' = Returned([out |-> r.out, raised |-> r.raised])
    /\ UNCHANGED <<runVars, downloader, callFn, callEnv>>

NextHook == CallDefaultProgressHook \/ CallStreamlitProgressHook

SpecHook == InitHook /\ [][NextHook]_vars

----------------------------------------------------------------------------
(* UserInterface: the prompts of the CLI *)

\* UserInterface.QUALITY_CHOICES
QUALITY_CHOICES ==
    [c \in {"1", "2", "3", "4", "5"} |->
        CASE c = "1" -> "BEST"
          [] c = "2" -> "HD_4K"
          [] c = "3" -> "HD_1080"
          [] c = "4" -> "HD_720"
          [] c = "5" -> "AUDIO_ONLY"]

\* UserInterface.FORMAT_CHOICES
FORMAT_CHOICES ==
    [c \in {"1", "2", "3", "4"} |->
        CASE c = "1" -> "mp4"
          [] c = "2" -> "webm"
          [] c = "3" -> "mkv"
          [] c = "4" -> "avi"]

\* lines the user can type at a numbered menu
MenuLines == {"", "2", "5", "9"}

\* UserInterface.get_quality_choice: raised is "EOFError" when stdin ran out
RECURSIVE GetQualityChoice(_)
GetQualityChoice(stdin) ==
    IF stdin = <<>> THEN [ret |-> None, raised |-> "EOFError"]
    ELSE LET choice == Head(stdin)
         IN  IF choice = "" THEN [ret |-> "BEST", raised |-> ""]
             ELSE IF choice \in DOMAIN QUALITY_CHOICES
             THEN [ret |-> QUALITY_CHOICES[choice], raised |-> ""]
             ELSE GetQualityChoice(Tail(stdin))

\* the first loop of UserInterface.get_format_preference
RECURSIVE GetFormatChoice(_)
GetFormatChoice(stdin) ==
    IF stdin = <<>> THEN [ret |-> None, raised |-> "EOFError"]
    ELSE LET choice == Head(stdin)
         IN  IF choice = "" THEN [ret |-> "mp4", raised |-> ""]
             ELSE IF choice \in DOMAIN FORMAT_CHOICES
             THEN [ret |-> FORMAT_CHOICES[choice], raised |-> ""]
             ELSE GetFormatChoice(Tail(stdin))

\* UserInterface.get_format_preference: ret is (format_choice, force_convert);
\* stdin1 feeds the menu, stdin2 the question about forcing MP4
GetFormatPreference(stdin1, stdin2) ==
    LET fmt == GetFormatChoice(stdin1)
        ask == AskLoop(stdin2, {"y", "yes"}, {"", "n", "no"})
    IN  IF fmt.raised # "" THEN [ret |-> <<None, FALSE>>, prompts |-> {"format"},
                                 raised |-> fmt.raised]
        ELSE IF fmt.ret = "mp4"
        THEN [ret     |-> <<fmt.ret, ask.choice = "yes">>,
              prompts |-> {"format", "force_mp4"},
              raised  |-> IF ask.choice = "EOFError" THEN "EOFError" ELSE ""]
        ELSE [ret |-> <<fmt.ret, TRUE>>, prompts |-> {"format"}, raised |-> ""]

\* UserInterface.is_playlist_download: one input() whichever branch is taken
IsPlaylistDownload(url, video_info, stdin) ==
    IF stdin = <<>> THEN [ret |-> FALSE, raised |-> "EOFError"]
    ELSE [ret |-> StripLower(Head(stdin)) \in {"y", "yes"}, raised |-> ""]

\* str(Path(os.getcwd()))
Cwd == "cwd"

\* UserInterface.get_output_settings: dirs and names are the lines typed,
\* stripped; ret is (output_dir, custom_filename)
GetOutputSettings(video_info, dirs, names) ==
    IF dirs = <<>> THEN [ret |-> <<None, NoneStr>>, prompts |-> {"output_dir"},
                         raised |-> "EOFError"]
    ELSE IF names = <<>> THEN [ret |-> <<None, NoneStr>>,
                               prompts |-> {"output_dir", "filename"},
                               raised |-> "EOFError"]
    ELSE [ret     |-> <<IF Head(dirs) = "" THEN Cwd ELSE Head(dirs),
                        IF Head(names) # <<>> THEN Head(names) ELSE NoneStr>>,
          prompts |-> {"output_dir", "filename"},
          raised  |-> ""]

----------------------------------------------------------------------------
(* The CLI: main() of downloader.py *)

\* the URLs given on the command line, typed at the prompt or pasted in the GUI
RunUrls == { <<" ", "youtu.be/", "w">>, <<"#">> }

\* what the engine answers to a metadata query in a run of main()
RunOutcomes ==
    { [title |-> "T", uploader |-> "U", duration |-> "95"],
      [title |-> "T", uploader |-> "U", duration |-> "95.5"],
      NoneDict, DownloadError }

\* the values of --quality, --format and --output tried
QualityArgs == {"best", "720p", "audio"}
FormatArgs == {"mp4", "mkv"}
OutputArgs == {"."}

\* the custom file name given with --filename or typed
SampleName == <<"a", ".", "a">>

\* --quality
quality_map ==
    [q \in {"best", "4k", "1080p", "720p", "audio"} |->
        CASE q = "best"  -> "BEST"
          [] q = "4k"    -> "HD_4K"
          [] q = "1080p" -> "HD_1080"
          [] q = "720p"  -> "HD_720"
          [] q = "audio" -> "AUDIO_ONLY"]

\* main()'s locals before they are assigned
NoLocals ==
    [url |-> NoneStr, processed_url |-> NoneStr, video_info |-> NoneDict,
     quality |-> None, preferred_format |-> None, force_convert |-> FALSE,
     is_playlist |-> FALSE, output_dir |-> None, custom_filename |-> NoneStr]

\* the command lines: url, --force, --no-interactive and --silent are read
\* first; the other options are drawn where main() reads them
InitCli ==
    /\ mode = "cli"
    /\ pc = "main"
    /\ args \in [url : RunUrls \cup {NoneStr}, force : BOOLEAN,
                 no_interactive : BOOLEAN, silent : BOOLEAN]
    /\ loc = NoLocals
    /\ accepted = {} /\ validated = {} /\ fetched = {} /\ prompts = {}
    /\ downloads = <<>> /\ engine = <<>>
    /\ exit_status = -1
    /\ session = NoneDict /\ page = NoneDict
    /\ downloader = NoneDict /\ hook = NoneDict
    /\ NoCall

\* an uncaught exception ends the process with a traceback and status 1
Crash == pc' = "crashed" /\ exit_status' = 1

\* sys.exit(1)
SysExit1 == pc' = "exit" /\ exit_status' = 1

\* lines 525-537 without the sys.exit(1) of line 537: a rejected url
\* argument goes on to the metadata fetch
CliValidateNoExit ==
    /\ mode = "cli" /\ pc = "main" /\ TruthyStr(args.url)
    /\ IF args.force
       THEN /\ loc' = [loc EXCEPT !.url = args.url, !.processed_url = args.url]
            /\ pc' = "fetch"
            /\ UNCHANGED <<accepted, validated, prompts, exit_status>>
       ELSE \E outcome \in (IF MatchesYoutubePattern(Strip(args.url))
                            THEN {NoneDict} ELSE RunOutcomes) :
            \E stdin \in (IF \/ args.no_interactive
                             \/ MatchesYoutubePattern(Strip(args.url))
                             \/ outcome \notin {NoneDict, DownloadError}
                          THEN {<<>>} ELSE Stdins) :
               LET v == ValidateUrl(args.url, ~args.no_interactive, outcome, stdin)
               IN  /\ validated' = validated \cup {args.url}
                   /\ prompts' = prompts \cup (IF v.inputs > 0 THEN {"try_anyway"} ELSE {})
                   /\ IF v.raised # ""
                      THEN Crash /\ UNCHANGED <<loc, accepted>>
                      ELSE /\ pc' = "fetch"
                           /\ loc' = [loc EXCEPT !.url = args.url, !.processed_url = v.ret[2]]
                           /\ accepted' = accepted \cup (IF v.ret[1] THEN {v.ret[2]} ELSE {})
                           /\ UNCHANGED exit_status
    /\ UNCHANGED <<mode, args, fetched, downloads, engine, session, page, libVars>>

\* lines 525-537: the url argument is validated unless --force is given
CliValidate ==
    /\ mode = "cli" /\ pc = "main" /\ TruthyStr(args.url)
    /\ IF args.force
       THEN /\ loc' = [loc EXCEPT !.url = args.url, !.processed_url = args.url]
            /\ pc' = "fetch"
            /\ UNCHANGED <<accepted, validated, prompts, exit_status>>
       ELSE \E outcome \in (IF MatchesYoutubePattern(Strip(args.url))
                            THEN {NoneDict} ELSE RunOutcomes) :
            \E stdin \in (IF \/ args.no_interactive
                             \/ MatchesYoutubePattern(Strip(args.url))
                             \/ outcome \notin {NoneDict, DownloadError}
                          THEN {<<>>} ELSE Stdins) :
               LET v == ValidateUrl(args.url, ~args.no_interactive, outcome, stdin)
               IN  /\ validated' = validated \cup {args.url}
                   /\ prompts' = prompts \cup (IF v.inputs > 0 THEN {"try_anyway"} ELSE {})
                   /\ IF v.raised # ""
                      THEN Crash /\ UNCHANGED <<loc, accepted>>
                      ELSE IF ~v.ret[1]
                      THEN /\ SysExit1
                           /\ loc' = [loc EXCEPT !.url = args.url, !.processed_url = v.ret[2]]
                           /\ UNCHANGED accepted
                      ELSE /\ pc' = "fetch"
                           /\ loc' = [loc EXCEPT !.url = args.url, !.processed_url = v.ret[2]]
                           /\ accepted' = accepted \cup {v.ret[2]}
                           /\ UNCHANGED exit_status
    /\ UNCHANGED <<mode, args, fetched, downloads, engine, session, page, libVars>>

\* lines 539-555 with line 550 asking whether or not --force is given
CliFetchInfoAsksForced ==
    /\ mode = "cli" /\ pc = "fetch"
    /\ \E outcome \in RunOutcomes :
          LET info == GetVideoInfo(loc.processed_url, FALSE, outcome).ret
              asks == ~TruthyDict(info) /\ ~args.silent
                      /\ ~args.no_interactive
          IN  /\ fetched' = fetched \cup {loc.processed_url}
              /\ \E stdin \in (IF asks THEN SeqsUpTo(AnswerLines, 1) ELSE {<<>>}) :
                    /\ prompts' = prompts \cup (IF asks THEN {"continue_anyway"} ELSE {})
                    /\ IF asks /\ stdin = <<>>
                       THEN Crash /\ loc' = [loc EXCEPT !.video_info = info]
                       ELSE IF asks /\ StripLower(Head(stdin)) \notin {"y", "yes"}
                       THEN SysExit1 /\ loc' = [loc EXCEPT !.video_info = info]
                       ELSE /\ pc' = "prefs"
                            /\ loc' = [loc EXCEPT !.video_info = info,
                                                  !.url = loc.processed_url]
                            /\ UNCHANGED exit_status
    /\ UNCHANGED <<mode, args, accepted, validated, downloads, engine, session, page, libVars>>

\* lines 539-555: the metadata fetch for the url argument
CliFetchInfo ==
    /\ mode = "cli" /\ pc = "fetch"
    /\ \E outcome \in RunOutcomes :
          LET info == GetVideoInfo(loc.processed_url, FALSE, outcome).ret
              asks == ~TruthyDict(info) /\ ~args.silent /\ ~args.force
                      /\ ~args.no_interactive
          IN  /\ fetched' = fetched \cup {loc.processed_url}
              /\ \E stdin \in (IF asks THEN SeqsUpTo(AnswerLines, 1) ELSE {<<>>}) :
                    /\ prompts' = prompts \cup (IF asks THEN {"continue_anyway"} ELSE {})
                    /\ IF asks /\ stdin = <<>>
                       THEN Crash /\ loc' = [loc EXCEPT !.video_info = info]
                       ELSE IF asks /\ StripLower(Head(stdin)) \notin {"y", "yes"}
                       THEN SysExit1 /\ loc' = [loc EXCEPT !.video_info = info]
                       ELSE /\ pc' = "prefs"
                            /\ loc' = [loc EXCEPT !.video_info = info,
                                                  !.url = loc.processed_url]
                            /\ UNCHANGED exit_status
    /\ UNCHANGED <<mode, args, accepted, validated, downloads, engine, session, page, libVars>>

\* line 557, UserInterface.get_url lines 335-350: a URL is read, validated
\* and its metadata fetched; typed is <<>> at end of input, else holds the
\* line typed.  The loop starts again on an empty or a rejected URL.
CliGetUrl ==
    /\ mode = "cli" /\ pc = "main" /\ ~TruthyStr(args.url)
    /\ \E typed \in SeqsUpTo(RunUrls \cup {<<>>}, 1) :
          IF typed = <<>>
          THEN /\ Crash
               /\ prompts' = prompts \cup {"url"}
               /\ UNCHANGED <<loc, accepted, validated, fetched>>
          ELSE IF Strip(Head(typed)) = <<>>
          THEN /\ prompts' = prompts \cup {"url"}
               /\ UNCHANGED <<pc, exit_status, loc, accepted, validated, fetched>>
          ELSE \E outcome \in (IF MatchesYoutubePattern(Strip(Head(typed)))
                               THEN {NoneDict} ELSE RunOutcomes) :
               \E stdin \in (IF MatchesYoutubePattern(Strip(Head(typed)))
                                \/ outcome \notin {NoneDict, DownloadError}
                             THEN {<<>>} ELSE Stdins) :
               \E v \in {ValidateUrl(Strip(Head(typed)), TRUE, outcome, stdin)} :
                  /\ validated' = validated \cup {Strip(Head(typed))}
                  /\ prompts' = prompts \cup {"url"}
                                    \cup (IF v.inputs > 0 THEN {"try_anyway"} ELSE {})
                  /\ IF v.raised # ""
                     THEN Crash /\ UNCHANGED <<loc, accepted, fetched>>
                     ELSE IF ~v.ret[1]
                     THEN UNCHANGED <<pc, exit_status, loc, accepted, fetched>>
                     ELSE \E outcome2 \in RunOutcomes :
                             /\ accepted' = accepted \cup {v.ret[2]}
                             /\ fetched' = fetched \cup {v.ret[2]}
                             /\ loc' = [loc EXCEPT
                                           !.processed_url = v.ret[2],
                                           !.video_info =
                                              GetVideoInfo(v.ret[2], FALSE, outcome2).ret]
                             /\ pc' = "confirm"
                             /\ UNCHANGED exit_status
    /\ UNCHANGED <<mode, args, downloads, engine, session, page, libVars>>

\* UserInterface.get_url lines 352-374: the user confirms the URL, which is
\* then returned, or declines it, which starts the loop again
CliConfirmUrl ==
    /\ mode = "cli" /\ pc = "confirm"
    /\ \E stdin \in Stdins :
          LET info == loc.video_info
              ask  == IF TruthyDict(info)
                      THEN AskLoop(stdin, {"y", "yes", ""}, {"n", "no"})
                      ELSE AskLoop(stdin, {"y", "yes"}, {"n", "no"})
          IN  /\ prompts' = prompts \cup {IF TruthyDict(info) THEN "proceed"
                                          ELSE "try_anyway_no_info"}
              /\ IF ask.choice = "EOFError"
                 THEN Crash /\ UNCHANGED loc
                 ELSE IF ask.choice = "yes"
                 THEN /\ pc' = "fetch_again"
                      /\ loc' = [loc EXCEPT !.url = loc.processed_url,
                                            !.video_info = NoneDict]
                      /\ UNCHANGED exit_status
                 ELSE /\ pc' = "main"
                      /\ loc' = NoLocals
                      /\ UNCHANGED exit_status
    /\ UNCHANGED <<mode, args, accepted, validated, fetched, downloads, engine, session, page,
                   libVars>>

\* line 558: the metadata of the URL get_url returned is fetched again
CliFetchAgain ==
    /\ mode = "cli" /\ pc = "fetch_again"
    /\ \E outcome \in RunOutcomes :
          /\ loc' = [loc EXCEPT !.video_info = GetVideoInfo(loc.url, FALSE, outcome).ret]
          /\ fetched' = fetched \cup {loc.url}
    /\ pc' = "prefs"
    /\ UNCHANGED <<mode, args, accepted, validated, prompts, downloads, engine, exit_status,
                   session, page, libVars>>


\* lines 569-583: with --no-interactive the preferences come from the
\* command line (line 522 for the format)
CliPrefsFromArgs ==
    /\ mode = "cli" /\ pc = "prefs" /\ args.no_interactive
    /\ \E q \in QualityArgs, f \in FormatArgs, fc \in BOOLEAN, pl \in BOOLEAN,
          out \in OutputArgs, fn \in {NoneStr, SampleName} :
          loc' = [loc EXCEPT !.quality = quality_map[q],
                             !.preferred_format = f,
                             !.is_playlist = pl,
                             !.output_dir = out,
                             !.custom_filename = fn,
                             !.force_convert = fc]
    /\ pc' = "download"
    /\ UNCHANGED <<mode, args, accepted, validated, fetched, prompts, downloads, engine,
                   exit_status, session, page, libVars>>

\* lines 586-595: the quality comes from --quality unless that is 'best',
\* else from the menu; audio-only skips the format question
CliQuality ==
    /\ mode = "cli" /\ pc = "prefs" /\ ~args.no_interactive
    /\ \E q \in QualityArgs, f \in FormatArgs :
       \E stdin \in (IF q = "best" THEN SeqsUpTo(MenuLines, MaxAnswers) ELSE {<<>>}) :
          LET asks   == q = "best"
              choice == IF asks THEN GetQualityChoice(stdin)
                        ELSE [ret |-> quality_map[q], raised |-> ""]
          IN  /\ prompts' = prompts \cup (IF asks THEN {"quality"} ELSE {})
              /\ IF choice.raised # ""
                 THEN Crash /\ loc' = [loc EXCEPT !.preferred_format = f]
                 ELSE /\ loc' = [loc EXCEPT !.preferred_format = f,
                                            !.quality = choice.ret,
                                            !.force_convert = FALSE]
                      /\ pc' = IF choice.ret # "AUDIO_ONLY" THEN "format" ELSE "playlist"
                      /\ UNCHANGED exit_status
    /\ UNCHANGED <<mode, args, accepted, validated, fetched, downloads, engine, session, page,
                   libVars>>

\* line 593: ui.get_format_preference()
CliFormat ==
    /\ mode = "cli" /\ pc = "format"
    /\ \E stdin1 \in SeqsUpTo(MenuLines, MaxAnswers) :
       \E stdin2 \in (IF GetFormatChoice(stdin1).ret = "mp4" THEN Stdins ELSE {<<>>}) :
       \E pref \in {GetFormatPreference(stdin1, stdin2)} :
              /\ prompts' = prompts \cup pref.prompts
              /\ IF pref.raised # ""
                 THEN Crash /\ UNCHANGED loc
                 ELSE /\ loc' = [loc EXCEPT !.preferred_format = pref.ret[1],
                                            !.force_convert = pref.ret[2]]
                      /\ pc' = "playlist"
                      /\ UNCHANGED exit_status
    /\ UNCHANGED <<mode, args, accepted, validated, fetched, downloads, engine, session, page,
                   libVars>>

\* line 597: --playlist, or else the answer to ui.is_playlist_download
CliPlaylist ==
    /\ mode = "cli" /\ pc = "playlist"
    /\ \E pl \in BOOLEAN, stdin \in SeqsUpTo(AnswerLines, 1) :
          LET ask == IsPlaylistDownload(loc.url, loc.video_info, stdin)
          IN  /\ pl => stdin = <<>>
              /\ prompts' = prompts \cup (IF pl THEN {} ELSE {"playlist"})
              /\ IF ~pl /\ ask.raised # ""
                 THEN Crash /\ UNCHANGED loc
                 ELSE /\ loc' = [loc EXCEPT !.is_playlist = pl \/ ask.ret]
                      /\ pc' = "output"
                      /\ UNCHANGED exit_status
    /\ UNCHANGED <<mode, args, accepted, validated, fetched, downloads, engine, session, page,
                   libVars>>

\* lines 599-603: the output directory and file name are asked for unless
\* --filename is given or a playlist is downloaded
CliOutput ==
    /\ mode = "cli" /\ pc = "output"
    /\ \E fn \in {NoneStr, SampleName}, out \in OutputArgs,
          dirs \in SeqsUpTo({""}, 1), names \in SeqsUpTo({<<>>, SampleName}, 1) :
          LET asks == ~TruthyStr(fn) /\ ~loc.is_playlist
              set  == GetOutputSettings(loc.video_info, dirs, names)
          IN  /\ ~asks => (dirs = <<>> /\ names = <<>>)
              /\ IF asks
                 THEN /\ prompts' = prompts \cup set.prompts
                      /\ IF set.raised # ""
                         THEN Crash /\ UNCHANGED loc
                         ELSE /\ loc' = [loc EXCEPT !.output_dir = set.ret[1],
                                                    !.custom_filename = set.ret[2]]
                              /\ pc' = "download"
                              /\ UNCHANGED exit_status
                 ELSE /\ loc' = [loc EXCEPT !.output_dir = out, !.custom_filename = fn]
                      /\ pc' = "download"
                      /\ UNCHANGED <<prompts, exit_status>>
    /\ UNCHANGED <<mode, args, accepted, validated, fetched, downloads, engine, session, page,
                   libVars>>

\* the record kept of one call of YouTubeDownloader.download
DownloadCall(self, url, r) ==
    [url |-> url, self |-> self, ret |-> r.ret, calls |-> r.calls, raised |-> r.raised]

\* lines 605-618 with the sys.exit(1) of line 618 left out in --silent mode
CliDownloadSilentReturns ==
    /\ mode = "cli" /\ pc = "download"
    /\ \E mkdir_ok \in BOOLEAN, outcome \in DownloadOutcomes :
          LET dl == NewDownloader(loc.output_dir, loc.custom_filename,
                                  loc.preferred_format, None)
              r  == Download(dl, loc.url, loc.quality, loc.is_playlist, loc.video_info,
                             loc.force_convert, args.silent, outcome)
          IN  IF ~mkdir_ok
              THEN Crash /\ UNCHANGED <<downloader, downloads, engine>>
              ELSE /\ downloader' = dl
                   /\ downloads' = Append(downloads, DownloadCall(dl, loc.url, r))
                   /\ engine' = engine \o r.calls
                   /\ IF r.ret \/ args.silent
                      THEN pc' = "done" /\ exit_status' = 0
                      ELSE SysExit1
    /\ UNCHANGED <<mode, args, loc, accepted, validated, fetched, prompts, session,
                   page, hook, callFn, callArgs, callEnv, callRet>>

\* lines 605-618: the output directory is created, the downloader built and
\* download called; main returns on success and exits with 1 otherwise
CliDownload ==
    /\ mode = "cli" /\ pc = "download"
    /\ \E mkdir_ok \in BOOLEAN, outcome \in DownloadOutcomes :
          LET dl == NewDownloader(loc.output_dir, loc.custom_filename,
                                  loc.preferred_format, None)
              r  == Download(dl, loc.url, loc.quality, loc.is_playlist, loc.video_info,
                             loc.force_convert, args.silent, outcome)
          IN  IF ~mkdir_ok
              THEN Crash /\ UNCHANGED <<downloader, downloads, engine>>
              ELSE /\ downloader' = dl
                   /\ downloads' = Append(downloads, DownloadCall(dl, loc.url, r))
                   /\ engine' = engine \o r.calls
                   /\ IF r.ret
                      THEN pc' = "done" /\ exit_status' = 0
                      ELSE SysExit1
    /\ UNCHANGED <<mode, args, loc, accepted, validated, fetched, prompts, session,
                   page, hook, callFn, callArgs, callEnv, callRet>>

NextCli ==
    \/ CliValidate \/ CliFetchInfo \/ CliGetUrl \/ CliConfirmUrl \/ CliFetchAgain
    \/ CliPrefsFromArgs \/ CliQuality \/ CliFormat \/ CliPlaylist \/ CliOutput
    \/ CliDownload

SpecCli == InitCli /\ [][NextCli]_vars


----------------------------------------------------------------------------
(* The GUI: main() of app.py, run again by Streamlit on every interaction *)

\* what can stand in the URL text field
GuiTexts == RunUrls \cup {<<>>, <<" ">>}

\* the entries of the "Video Quality" select box tried
GuiQualities == {"HD_1080", "AUDIO_ONLY"}

\* format_options of the "Video Format" select box
format_options ==
    [f \in {"Original (from YouTube)", "MP4 (Best Compatibility)",
            "WebM (Smaller Size)", "MKV (High Quality)"} |->
        CASE f = "Original (from YouTube)"  -> None
          [] f = "MP4 (Best Compatibility)" -> "mp4"
          [] f = "WebM (Smaller Size)"      -> "webm"
          [] f = "MKV (High Quality)"       -> "mkv"]

\* the entries of the "Video Format" select box tried
GuiFormats == {"Original (from YouTube)", "WebM (Smaller Size)"}

\* initialize_session_state, for the keys main() uses: is_downloading and
\* the video_info_<hash(url)> cache entries, kept as (key, info) pairs
InitializeSessionState(state) ==
    IF state = NoneDict THEN [is_downloading |-> FALSE, cache |-> {}] ELSE state

\* cache_key in st.session_state
Cached(cache, url) == \E e \in cache : e.key = url

\* get_video_info of app.py storing whatever the fetch returned, None too
AppGetVideoInfoStoresAll(cache, url, outcome) ==
    IF ~TruthyStr(url)
    THEN [ret |-> NoneDict, cache |-> cache, calls |-> <<>>]
    ELSE IF Cached(cache, url)
    THEN [ret |-> (CHOOSE e \in cache : e.key = url).info, cache |-> cache,
          calls |-> <<>>]
    ELSE LET info == GetVideoInfo(url, FALSE, outcome).ret
         IN  [ret   |-> info,
              cache |-> cache \cup {[key |-> url, info |-> info]},
              calls |-> <<url>>]

\* get_video_info of app.py: ret is the info returned, cache the cache after
\* the call, calls the queries made to URLValidator.get_video_info
AppGetVideoInfo(cache, url, outcome) ==
    IF ~TruthyStr(url)
    THEN [ret |-> NoneDict, cache |-> cache, calls |-> <<>>]
    ELSE IF Cached(cache, url)
    THEN [ret |-> (CHOOSE e \in cache : e.key = url).info, cache |-> cache,
          calls |-> <<>>]
    ELSE LET info == GetVideoInfo(url, FALSE, outcome).ret
         IN  [ret   |-> info,
              cache |-> IF TruthyDict(info)
                        THEN cache \cup {[key |-> url, info |-> info]} ELSE cache,
              calls |-> <<url>>]

\* the browser session before the first script run
InitGui ==
    /\ mode = "gui"
    /\ pc = "idle"
    /\ args = NoneDict
    /\ loc = NoLocals
    /\ accepted = {} /\ validated = {} /\ fetched = {} /\ prompts = {}
    /\ downloads = <<>> /\ engine = <<>>
    /\ exit_status = -1
    /\ session = NoneDict
    /\ page = [url |-> <<>>, button |-> "absent", click |-> "none", fetches |-> 0,
               exception |-> "", rerun |-> FALSE, valid |-> FALSE]
    /\ downloader = NoneDict /\ hook = NoneDict
    /\ NoCall

\* lines 345-396, reached with the Download button pressed and
\* is_downloading false: the option widgets (lines 249-320) are read, the
\* directory is created, the downloader built and download called
GuiDownload(state, text, url, video_info, fetches) ==
    \E selected_quality \in GuiQualities, selected_format \in GuiFormats,
       custom_filename \in {<<>>, SampleName}, is_playlist \in BOOLEAN,
       mkdir_ok \in BOOLEAN :
    \E result \in (IF mkdir_ok THEN DownloadOutcomes ELSE {DownloadError}) :
       LET quality       == selected_quality
           video_format  == IF quality # "AUDIO_ONLY" THEN format_options[selected_format]
                            ELSE "mp4"
           force_convert == IF quality # "AUDIO_ONLY"
                            THEN selected_format # "Original (from YouTube)"
                            ELSE FALSE
           output_dir    == Cwd
           dl0 == NewDownloader(output_dir,
                                IF TruthyStr(custom_filename) THEN custom_filename
                                ELSE NoneStr,
                                IF Truthy(video_format) THEN video_format ELSE "mp4",
                                None)
           dl  == [dl0 EXCEPT !.progress_hook = "StreamlitProgressHook"]
       IN  \E r \in {Download(dl, url, quality, is_playlist, video_info, force_convert,
                              FALSE, result)} :
           /\ loc' = [NoLocals EXCEPT !.url = url,
                                      !.processed_url = url,
                                      !.video_info = video_info,
                                      !.quality = quality,
                                      !.preferred_format = video_format,
                                      !.force_convert = force_convert,
                                      !.is_playlist = is_playlist,
                                      !.output_dir = output_dir,
                                      !.custom_filename = custom_filename]
           /\ IF ~mkdir_ok
              THEN \* line 349 raises: the run ends with is_downloading still set
                   /\ session' = [state EXCEPT !.is_downloading = TRUE]
                   /\ page' = [url |-> text, click |-> "download", button |-> "enabled",
                               fetches |-> fetches, exception |-> "OSError",
                               rerun |-> FALSE, valid |-> TRUE]
                   /\ downloads' = <<>> /\ engine' = <<>>
                   /\ UNCHANGED <<downloader, hook>>
              ELSE \* the finally clause resets is_downloading
                   /\ session' = [state EXCEPT !.is_downloading = FALSE]
                   /\ page' = [url |-> text, click |-> "download", button |-> "enabled",
                               fetches |-> fetches, exception |-> "",
                               rerun |-> FALSE, valid |-> TRUE]
                   /\ downloader' = dl
                   /\ hook' = NewStreamlitProgressHook
                   /\ downloads' = <<DownloadCall(dl, url, r)>>
                   /\ engine' = r.calls

\* one run of the script.  click is the button pressed on the page of the
\* last run ("none" when another widget changed): Download can be pressed
\* when it was rendered enabled, Refresh Info when it was rendered, and the
\* URL field then still holds the text of that run.
GuiRun ==
    /\ mode = "gui" /\ pc = "idle"
    /\ \E click \in {"none", "download", "refresh"} :
       \E text \in (IF click = "none" THEN GuiTexts ELSE {page.url}) :
       \E probe \in (IF ~TruthyStr(text) \/ MatchesYoutubePattern(Strip(text))
                     THEN {NoneDict} ELSE RunOutcomes) :
          /\ click = "download" => page.button = "enabled"
          /\ click = "refresh" => page.button # "absent"
          /\ LET state0 == InitializeSessionState(session)
                 \* lines 205-211
                 valid0 == IF TruthyStr(text) THEN ValidateUrl(text, FALSE, probe, <<>>).ret
                           ELSE <<FALSE, text>>
             IN  \E valid \in {valid0[1]}, url \in {IF valid0[1] THEN valid0[2] ELSE text} :
                 \E outcome \in (IF valid /\ TruthyStr(url) /\ ~Cached(state0.cache, url)
                                 THEN RunOutcomes ELSE {NoneDict}) :
                 \E got \in {IF valid THEN AppGetVideoInfo(state0.cache, url, outcome)
                              ELSE [ret |-> NoneDict, cache |-> state0.cache,
                                    calls |-> <<>>]} :
                    LET video_info == got.ret
                        state1     == [state0 EXCEPT !.cache = got.cache]
                        \* lines 325-342
                        shown == TruthyStr(url) /\ TruthyDict(video_info)
                        button == IF ~shown THEN "absent"
                                  ELSE IF state0.is_downloading THEN "disabled"
                                  ELSE "enabled"
                    IN  /\ accepted' = accepted \cup (IF valid THEN {url} ELSE {})
                        /\ validated' = validated \cup (IF TruthyStr(text) THEN {text}
                                                         ELSE {})
                        /\ fetched' = fetched \cup {got.calls[i] : i \in 1..Len(got.calls)}
                        /\ IF shown /\ click = "refresh"
                           THEN \* lines 337-342: the entry is deleted, st.rerun()
                                \* ends the run
                                /\ session' = [state1 EXCEPT
                                                  !.cache = {e \in got.cache : e.key # url}]
                                /\ page' = [url |-> text, click |-> click,
                                            button |-> button,
                                            fetches |-> Len(got.calls),
                                            exception |-> "", rerun |-> TRUE, valid |-> valid]
                                /\ loc' = [NoLocals EXCEPT !.url = url,
                                                           !.video_info = video_info]
                                /\ downloads' = <<>> /\ engine' = <<>>
                                /\ UNCHANGED <<downloader, hook>>
                           ELSE IF shown /\ click = "download" /\ ~state0.is_downloading
                           THEN GuiDownload(state1, text, url, video_info, Len(got.calls))
                           ELSE /\ session' = state1
                                /\ page' = [url |-> text, click |-> click,
                                            button |-> button,
                                            fetches |-> Len(got.calls),
                                            exception |-> "", rerun |-> FALSE, valid |-> valid]
                                /\ loc' = [NoLocals EXCEPT !.url = url,
                                                           !.video_info = video_info]
                                /\ downloads' = <<>> /\ engine' = <<>>
                                /\ UNCHANGED <<downloader, hook>>
    /\ UNCHANGED <<mode, pc, args, prompts, exit_status, callFn, callArgs, callEnv,
                   callRet>>

----------------------------------------------------------------------------
(* The two programs *)

Init == InitCli \/ InitGui

Next == NextCli \/ GuiRun

Spec == Init /\ [][Next]_vars


----------------------------------------------------------------------------
(* Properties of the functions called on their own *)

\* t is s with leading and trailing whitespace removed and nothing else changed
IsTrimOf(t, s) ==
    \E i \in 1..(Len(s) + 1), j \in 0..Len(s) :
        /\ t = SubSeq(s, i, j)
        /\ \A k \in 1..(i - 1) : s[k] \in Whitespace
        /\ \A k \in (j + 1)..Len(s) : s[k] \in Whitespace
        /\ t # <<>> => (t[1] \notin Whitespace /\ t[Len(t)] \notin Whitespace)

\* the yt-dlp probe of the examined call succeeds
ProbeSucceeds == callEnv.outcome \notin {NoneDict, DownloadError}

\* C2: validate_url returns the input trimmed of leading and trailing
\* whitespace in every outcome; it probes the engine only when no pattern
\* matches the trimmed URL, prompts only when no pattern matches, the probe
\* failed and interactive is true; and with interactive=False it returns
\* is_valid=True exactly when a pattern matches or the probe succeeds.
C2_ValidateUrl ==
    (callFn = "validate_url" /\ callRet.done) =>
        LET u       == callArgs.url
            matches == \E i \in 1..(Len(u) + 1), j \in 0..Len(u) :
                          /\ IsTrimOf(SubSeq(u, i, j), u)
                          /\ MatchesYoutubePattern(SubSeq(u, i, j))
            probed  == callRet.calls # <<>>
        IN  /\ callRet.raised = "" => IsTrimOf(callRet.ret[2], callArgs.url)
            /\ probed => ~matches
            /\ callRet.inputs > 0 => (~matches /\ ~ProbeSucceeds /\ callArgs.interactive)
            /\ ~callArgs.interactive =>
                  /\ callRet.raised = ""
                  /\ callRet.ret[1] <=> (matches \/ (probed /\ ProbeSucceeds))

\* C2 witness: a non-interactive call on a URL with surrounding whitespace
\* that no pattern matches and that the probe accepts
C2_Witness ==
    /\ callFn = "validate_url" /\ callRet.done
    /\ ~callArgs.interactive
    /\ callArgs.url # <<>> /\ Head(callArgs.url) \in Whitespace
    /\ callArgs.url[Len(callArgs.url)] \in Whitespace
    /\ callRet.ret[2] # <<>>
    /\ ~MatchesYoutubePattern(callRet.ret[2])
    /\ callRet.calls # <<>>
    /\ callRet.ret[1]

\* C3: the output template is the playlist template when is_playlist is true
\* (custom file name or not), else the template of the custom file name's
\* stem when a non-empty custom file name is set, else the title template;
\* it is the same for every video_info.
C3_OutputTemplate ==
    (callFn = "_get_output_template" /\ callRet.done) =>
        LET dir  == downloader.output_dir
            name == downloader.custom_filename
        IN  /\ callArgs.is_playlist =>
                  callRet.ret = <<dir, "/", "%(playlist)s", "/", "%(playlist_index)s",
                                  " - ", "%(title)s", ".%(ext)s">>
            /\ (~callArgs.is_playlist /\ name \notin {NoneStr, <<>>}) =>
                  callRet.ret = <<dir, "/">> \o PathStem(name) \o <<".%(ext)s">>
            /\ (~callArgs.is_playlist /\ name \in {NoneStr, <<>>}) =>
                  callRet.ret = <<dir, "/", "%(title)s", ".%(ext)s">>
            /\ \A info \in VideoInfos :
                  callRet.ret = GetOutputTemplate(downloader, callArgs.is_playlist, info)

\* C3 witness: a playlist call on a downloader with a custom file name, with
\* metadata passed
C3_Witness ==
    /\ callFn = "_get_output_template" /\ callRet.done
    /\ callArgs.is_playlist
    /\ downloader.custom_filename = <<"a", ".", "a">>
    /\ callArgs.video_info \notin {NoneDict, <<>>}

\* C4: for AUDIO_ONLY the options select bestaudio/best and hold exactly one
\* post-processing step, FFmpegExtractAudio to mp3 at quality 192, whatever
\* force_convert and the preferred format are.
C4_AudioOnly ==
    (callFn = "_get_ydl_opts" /\ callRet.done /\ callArgs.quality = "AUDIO_ONLY") =>
        /\ callRet.ret.format = << <<Sel("bestaudio", 0, "")>>, <<Sel("best", 0, "")>> >>
        /\ callRet.ret.postprocessors =
              << [key |-> "FFmpegExtractAudio", preferredcodec |-> "mp3",
                  preferredquality |-> "192"] >>

\* C4 witness: an audio-only call with force_convert set on a downloader that
\* prefers webm
C4_Witness ==
    /\ callFn = "_get_ydl_opts" /\ callRet.done
    /\ callArgs.quality = "AUDIO_ONLY"
    /\ callArgs.force_convert
    /\ downloader.preferred_format = "webm"

\* C5: for every video tier the post-processing list holds an
\* FFmpegVideoConvertor step, targeting the preferred format, if and only if
\* force_convert is true; it holds exactly one FFmpegMetadata step, and that
\* step is last.
C5_VideoPostprocessors ==
    (callFn = "_get_ydl_opts" /\ callRet.done /\ callArgs.quality \in VideoQuality) =>
        LET pp         == callRet.ret.postprocessors
            convertors == {i \in 1..Len(pp) : pp[i].key = "FFmpegVideoConvertor"}
            metadata   == {i \in 1..Len(pp) : pp[i].key = "FFmpegMetadata"}
        IN  /\ callArgs.force_convert <=> convertors # {}
            /\ \A i \in convertors : pp[i].preferedformat = downloader.preferred_format
            /\ Cardinality(convertors) <= 1
            /\ metadata = {Len(pp)}
            /\ Len(pp) = Cardinality(convertors) + 1

\* C5 witness: a 1080p call with force_convert on a downloader that prefers mkv
C5_Witness ==
    /\ callFn = "_get_ydl_opts" /\ callRet.done
    /\ callArgs.quality = "HD_1080"
    /\ callArgs.force_convert
    /\ downloader.preferred_format = "mkv"
    /\ Len(callRet.ret.postprocessors) = 2

\* C6: download never raises; it returns True exactly when the engine's
\* download call was made and completed without an exception, and False when
\* the announcement or the engine raised, silent or not.
C6_DownloadResult ==
    (callFn = "download" /\ callRet.done) =>
        /\ callRet.raised = ""
        /\ callRet.ret <=> (Len(callRet.calls) = 1 /\ callEnv.outcome # DownloadError)
        /\ AnnounceRaises(callArgs.is_playlist, callArgs.video_info, callArgs.silent)
              => ~callRet.ret

\* C6 witness: the engine raises in a silent download, which returns False
C6_Witness ==
    /\ callFn = "download" /\ callRet.done
    /\ callArgs.silent
    /\ callEnv.outcome = DownloadError
    /\ Len(callRet.calls) = 1
    /\ ~callRet.ret

\* the examined hook call produced no output and raised nothing
SilentlyDropped == callRet.out = "" /\ callRet.raised = ""

\* C8 as claimed: no event a hook receives is silently dropped.
C8_NoEventDropped ==
    (callFn \in {"DefaultProgressHook", "StreamlitProgressHook"} /\ callRet.done) =>
        ~SilentlyDropped

\* C8: the hooks handle the statuses downloading, finished and error.  Every
\* error event and every finished event with a file name is rendered.  A
\* downloading event is silently dropped exactly when it has neither
\* total_bytes nor total_bytes_estimate or, by the console hook only, when
\* its integer percent is odd or equals last_printed_percent.
C8_Rendering ==
    (callFn \in {"DefaultProgressHook", "StreamlitProgressHook"} /\ callRet.done) =>
        LET d       == callArgs.d
            sized   == "total_bytes" \in DOMAIN d \/ "total_bytes_estimate" \in DOMAIN d
            total   == IF "total_bytes" \in DOMAIN d THEN d.total_bytes
                       ELSE d.total_bytes_estimate
            percent == (100 * d.downloaded_bytes) \div total
            throttled == /\ callFn = "DefaultProgressHook"
                         /\ sized /\ total > 0
                         /\ (percent % 2 = 1 \/ percent = callArgs.self.last_printed_percent)
        IN  /\ d.status = "error" => callRet.out = "error"
            /\ (d.status = "finished" /\ "filename" \in DOMAIN d) => callRet.out = "downloaded"
            /\ d.status = "finished" => ~SilentlyDropped
            /\ d.status = "downloading" => (SilentlyDropped <=> (~sized \/ throttled))
            /\ (d.status = "downloading" /\ callRet.out # "") => callRet.out = "bar"

\* C8 witness: the console hook drops a downloading event with a size and an
\* odd integer percent
C8_Witness ==
    /\ callFn = "DefaultProgressHook" /\ callRet.done
    /\ callArgs.d.status = "downloading"
    /\ "total_bytes" \in DOMAIN callArgs.d
    /\ callArgs.d.total_bytes > 0
    /\ ((100 * callArgs.d.downloaded_bytes) \div callArgs.d.total_bytes) % 2 = 1
    /\ SilentlyDropped

\* C9: get_video_info queries the engine with download=False only, never
\* raises, returns None when the engine raised and the engine's info
\* unchanged otherwise.
C9_GetVideoInfo ==
    (callFn = "get_video_info" /\ callRet.done) =>
        /\ callRet.raised = ""
        /\ Len(callRet.calls) = 1
        /\ \A i \in 1..Len(callRet.calls) :
              callRet.calls[i].op = "extract_info" /\ ~callRet.calls[i].download
        /\ callEnv.outcome = DownloadError => callRet.ret = NoneDict
        /\ callEnv.outcome # DownloadError => callRet.ret = callEnv.outcome

\* C9 witness: the engine raises and get_video_info returns None
C9_Witness ==
    /\ callFn = "get_video_info" /\ callRet.done
    /\ callEnv.outcome = DownloadError
    /\ callRet.ret = NoneDict

----------------------------------------------------------------------------
(* The runs of the two programs *)

\* C1 as stated: in every run of the CLI main() and of the GUI main(), download
\* is called only with a URL that validate_url has accepted and for which
\* get_video_info has been attempted
C1_DownloadOnlyAccepted ==
    \A i \in DOMAIN downloads :
        downloads[i].url \in accepted /\ downloads[i].url \in fetched

\* the url argument of a CLI run with --force, which line 531 takes as valid
\* without calling validate_url
Forced(url) == mode = "cli" /\ TruthyStr(args.url) /\ args.force /\ url = args.url

\* C1: download is called only with a URL for which get_video_info has been
\* attempted and which validate_url has accepted, or which is the url
\* argument of a CLI run with --force, which validate_url never sees
C1_DownloadAfterClassifier ==
    \A i \in DOMAIN downloads :
        /\ downloads[i].url \in fetched
        /\ downloads[i].url \in accepted \/ Forced(downloads[i].url)

\* a CLI run without --force has downloaded a URL that matches no pattern,
\* which validate_url accepted after the probe or the user's answer
C1_Witness ==
    /\ mode = "cli" /\ ~args.force
    /\ Len(downloads) = 1
    /\ ~MatchesYoutubePattern(downloads[1].url)
    /\ downloads[1].url \in accepted /\ downloads[1].url \in fetched

\* the option set of the one engine call of the download d: the format
\* policy, the output template and the downloader's current progress hook
OneOptionSet(d) ==
    \A k \in DOMAIN d.calls :
        /\ d.calls[k].op = "download" /\ d.calls[k].url = d.url
        /\ d.calls[k].opts.format =
              (IF loc.quality = "AUDIO_ONLY"
               THEN << <<Sel("bestaudio", 0, "")>>, <<Sel("best", 0, "")>> >>
               ELSE BuildFormatString(loc.quality, loc.force_convert))
        /\ d.calls[k].opts.outtmpl =
              GetOutputTemplate(d.self, loc.is_playlist, loc.video_info)
        /\ d.calls[k].opts.progress_hooks = <<d.self.progress_hook>>

\* the run is over: the CLI process has ended, or the GUI script has run
\* after a click on Download
RunOver ==
    \/ mode = "cli" /\ pc \in {"done", "exit", "crashed"}
    \/ mode = "gui" /\ page.click = "download"

\* C7 as stated: a download makes at most one engine call, with the one
\* option set, and every CLI run and every GUI Download click invokes
\* download exactly once
C7_ExactlyOnce ==
    /\ \A i \in DOMAIN downloads :
          Len(downloads[i].calls) <= 1 /\ OneOptionSet(downloads[i])
    /\ RunOver => Len(downloads) = 1

\* C7: a download makes at most one engine call, failed or not, with the one
\* option set; a CLI run or a GUI Download click invokes download at most
\* once, and exactly once when it gets as far as the download step: a CLI
\* run that returns normally, a GUI click in whose run the button is shown
\* enabled and the output directory is created
C7_AtMostOnce ==
    /\ \A i \in DOMAIN downloads :
          Len(downloads[i].calls) <= 1 /\ OneOptionSet(downloads[i])
    /\ Len(downloads) <= 1 /\ Len(engine) <= 1
    /\ mode = "cli" =>
          /\ pc = "done" => Len(downloads) = 1
          /\ Len(downloads) = 1 => pc \in {"done", "exit"}
    /\ mode = "gui" =>
          (Len(downloads) = 1 <=> /\ page.click = "download"
                                  /\ page.button = "enabled"
                                  /\ page.exception = "")

\* a run is over whose one download failed in the engine, after one call
C7_Witness ==
    /\ RunOver
    /\ Len(downloads) = 1 /\ ~downloads[1].ret
    /\ Len(downloads[1].calls) = 1 /\ engine = downloads[1].calls

\* C10 as stated: a CLI run with --no-interactive never calls input()
C10_NoPrompt == (mode = "cli" /\ args.no_interactive) => prompts = {}

\* a CLI run given a url argument and --force
ForcedRun == mode = "cli" /\ TruthyStr(args.url) /\ args.force

\* C11: in a CLI run with a url argument and --force validate_url is never
\* called, the metadata fetch and the download get the url argument
\* unchanged, neither 'Try to download anyway?' nor 'Continue anyway?' is
\* asked, and the run does not exit before the download call
C11_ForceSkipsValidation ==
    ForcedRun =>
        /\ validated = {} /\ accepted = {}
        /\ fetched \subseteq {args.url}
        /\ pc \notin {"main", "fetch"} => fetched = {args.url}
        /\ \A i \in DOMAIN downloads : downloads[i].url = args.url
        /\ prompts \cap {"url", "try_anyway", "continue_anyway"} = {}
        /\ pc = "exit" => Len(downloads) = 1

\* a forced interactive run, not silent, has downloaded a url argument that
\* starts with white space although its metadata could not be fetched
C11_Witness ==
    /\ ForcedRun /\ ~args.no_interactive /\ ~args.silent
    /\ Head(args.url) \in Whitespace
    /\ loc.video_info = NoneDict
    /\ Len(downloads) = 1 /\ downloads[1].url = args.url

\* the metadata cache a script run starts from
CacheBefore == IF session = NoneDict THEN {} ELSE session.cache

\* what one script run does with the cache: page'.valid says that
\* get_video_info was called, page'.fetches counts its queries to
\* URLValidator.get_video_info
CacheStep ==
    LET url      == loc'.url
        called   == page'.valid /\ TruthyStr(url)
        fetches  == page'.fetches
        info     == loc'.video_info
    IN  /\ fetches <= 1
        /\ ~called => fetches = 0
        /\ (called /\ Cached(CacheBefore, url)) =>
              /\ fetches = 0
              /\ [key |-> url, info |-> info] \in CacheBefore
        /\ (called /\ ~Cached(CacheBefore, url)) => fetches = 1
        /\ \A e \in session'.cache :
              /\ TruthyDict(e.info)
              /\ e \in CacheBefore \/ (fetches = 1 /\ e = [key |-> url, info |-> info])
        /\ (fetches = 1 /\ ~TruthyDict(info)) => ~Cached(session'.cache, url)
        /\ (fetches = 1 /\ TruthyDict(info) /\ ~page'.rerun) =>
              [key |-> url, info |-> info] \in session'.cache
        /\ page'.rerun <=> (page'.click = "refresh" /\ called /\ TruthyDict(info))
        /\ page'.rerun => session'.cache = {e \in CacheBefore : e.key # url}
        /\ ~page'.rerun => CacheBefore \subseteq session'.cache

\* C12: in every script run the library is queried at most once; a URL with
\* a cache entry is served from it without a query, a URL without one is
\* queried; only non-empty results are stored, so a failed fetch leaves no
\* entry and is made again by the next call; 'Refresh Info' deletes the
\* entry of the URL, so the next call for it queries again
C12_MetadataCache == [][mode = "gui" => CacheStep]_vars

\* a script run has shown the metadata of a valid URL from the cache, without
\* a query
C12_Witness ==
    /\ mode = "gui" /\ page.valid /\ page.fetches = 0
    /\ TruthyDict(loc.video_info)
    /\ [key |-> loc.url, info |-> loc.video_info] \in session.cache

\* validate_url has rejected the url argument (lines 533-535)
UrlRejected == TruthyStr(args.url) /\ validated = {args.url} /\ accepted = {}

\* 'Continue anyway?' was asked after a failed metadata fetch (line 551)
AskedToContinue == "continue_anyway" \in prompts /\ ~TruthyDict(loc.video_info)

----------------------------------------------------------------------------
(* The format policy and the console progress hook *)

\* the height of a capped tier
TierHeight(quality) ==
    CASE quality = "HD_4K" -> 2160 [] quality = "HD_1080" -> 1080
      [] quality = "HD_720" -> 720

\* the selectors of an alternative that pick a stream with a picture
VideoSelectors(alt) == {k \in DOMAIN alt : alt[k].stream \in {"best", "bestvideo"}}

\* C14: for HD_4K, HD_1080 and HD_720 every alternative of the format
\* expression picks its video through a selector capped at 2160, 1080 and
\* 720, whatever force_convert is; without force_convert the first
\* alternative requires ext=mp4, with it no selector names an extension
C14_HeightCaps ==
    (/\ callFn = "_build_format_string" /\ callRet.done
     /\ callArgs.quality \in {"HD_4K", "HD_1080", "HD_720"}) =>
        LET f == callRet.ret
        IN  /\ Len(f) >= 1
            /\ \A a \in DOMAIN f :
                  /\ VideoSelectors(f[a]) # {}
                  /\ \A k \in VideoSelectors(f[a]) :
                        /\ f[a][k].height # 0
                        /\ f[a][k].height <= TierHeight(callArgs.quality)
            /\ ~callArgs.force_convert =>
                  \A k \in VideoSelectors(f[1]) : f[1][k].ext = "mp4"
            /\ callArgs.force_convert =>
                  \A a \in DOMAIN f : \A k \in DOMAIN f[a] : f[a][k].ext = ""

\* the 720p expression without force_convert, with its three alternatives,
\* has been built
C14_Witness ==
    /\ callFn = "_build_format_string" /\ callRet.done
    /\ callArgs.quality = "HD_720" /\ ~callArgs.force_convert
    /\ Len(callRet.ret) = 3
    /\ callRet.ret[3] = <<Sel("best", 720, "")>>

\* the size the percent of a 'downloading' event is to be taken of:
\* total_bytes when the event has one, else total_bytes_estimate, else none
SizeField(d) ==
    IF "total_bytes" \in DOMAIN d THEN d.total_bytes
    ELSE IF "total_bytes_estimate" \in DOMAIN d THEN d.total_bytes_estimate
    ELSE NoneBytes

\* C15: last_printed_percent is -1 or an even percent; a call prints a bar
\* exactly when it updates last_printed_percent, which it does only for a
\* 'downloading' event whose integer percent, taken of total_bytes before
\* total_bytes_estimate, is even and differs from last_printed_percent, and
\* then to that percent; events without a size field, 'finished' and
\* 'error' events leave it unchanged
C15_Throttle ==
    callFn = "DefaultProgressHook" =>
        /\ \/ hook.last_printed_percent = -1
           \/ hook.last_printed_percent >= 0 /\ hook.last_printed_percent % 2 = 0
        /\ hook.current_stage = "Downloading"
        /\ callRet.done =>
              LET d       == callArgs.d
                  before  == callArgs.self.last_printed_percent
                  after   == hook.last_printed_percent
                  size    == SizeField(d)
                  counted == d.status = "downloading" /\ size \notin {NoneBytes, 0}
                  percent == (d.downloaded_bytes * 100) \div size
              IN  /\ callRet.out = "bar" <=> after # before
                  /\ callRet.out = "bar" <=>
                        (counted /\ percent % 2 = 0 /\ percent # before)
                  /\ callRet.out = "bar" => after = percent
                  /\ (d.status # "downloading" \/ ~HasSize(d)) => after = before

\* the console hook has printed a second bar, for an event whose
\* total_bytes and total_bytes_estimate give different percents
C15_Witness ==
    /\ callFn = "DefaultProgressHook" /\ callRet.done
    /\ callRet.out = "bar"
    /\ callArgs.self.last_printed_percent # -1
    /\ DOMAIN callArgs.d = {"status", "downloaded_bytes", "total_bytes",
                            "total_bytes_estimate"}
    /\ callArgs.d.downloaded_bytes > 0
    /\ callArgs.d.total_bytes_estimate \notin {NoneBytes, 0, callArgs.d.total_bytes}
    /\ hook.last_printed_percent = (callArgs.d.downloaded_bytes * 100)
                                      \div callArgs.d.total_bytes

----------------------------------------------------------------------------
(* The GUI download guard *)

\* C16 as stated: a download is made only in a script run in which the
\* Download button was pressed, and at the end of every script run
\* is_downloading is false
C16_GuardReset ==
    (mode = "gui" /\ session # NoneDict) =>
        /\ downloads # <<>> => page.click = "download"
        /\ ~session.is_downloading

====
